---- MODULE Spec2Model ----
(***************************************************************************)
(* The matchmaking and session-relay engine of src/app.js: ChatManager     *)
(* (waitingUsers, activeRooms, userSockets) and the Socket.IO handlers     *)
(* registered per connection.  Every handler runs to completion on the     *)
(* single Node.js event loop, so one handler is one action.                *)
(*                                                                         *)
(* Left out of the records: Date.now() timestamps (joinedAt, createdAt,    *)
(* timestamp), message ids, the client ip and opaque payload bytes; no     *)
(* handler reads them back.                                                *)
(***************************************************************************)
EXTENDS Integers, Sequences, FiniteSets, TLC

VARIABLES
    conn,          \* per socket: "absent", "lookup" (connection handler awaiting
                   \* the geolocation lookup), "open" (handlers registered), "closed"
    userLocation,  \* per socket: the userLocation its handlers close over
    userSockets,   \* chatManager.userSockets: socket id -> profile
    waitingUsers,  \* chatManager.waitingUsers: array of waiting entries
    activeRooms,   \* chatManager.activeRooms: room id -> room
    joined,        \* Socket.IO relay groups: room id -> sockets that joined it
    uuidCount,     \* how many room ids uuidv4() has handed out
    outbox,        \* the events the last handler delivered, in emit order
    lastEvent      \* the inbound event the last handler served

vars == <<conn, userLocation, userSockets, waitingUsers, activeRooms,
          joined, uuidCount, outbox, lastEvent>>

\* ------------------------------------------------------------- bounds
NumConns == 3
MaxRooms == 2
MaxQueue == 2
MaxMsgs == 1

\* Messages per room where only the log is followed.
MaxLog == 2

\* --------------------------------------------------------- value sets
\* JavaScript null / undefined where an object is expected.
NULL == [null |-> TRUE]

\* null where a socket id, a coordinate or a distance is expected, and the
\* missing nickname field ("" and undefined are both falsy).
NoSocket == 0

NoCoord == 1000

NoDistance == -1

NoNick == ""

\* socket.id of each connection.
Conns == 1..NumConns

\* The n-th identifier uuidv4() hands out for a room; never a socket id.
uuidv4(n) == NumConns + n

RoomIds == {uuidv4(n) : n \in 1..MaxRooms}

\* What LocationService.getLocationFromIP resolves to.
Jakarta == [country |-> "ID", region |-> "JK", city |-> "Jakarta",
            latitude |-> -6, longitude |-> 107]

Singapore == [country |-> "SG", region |-> "01", city |-> "Singapore",
              latitude |-> 1, longitude |-> 104]

\* The lookup is keyed by the client address: what it finds for each
\* connection when it succeeds, and what it may resolve to (NULL: nothing
\* found, or the lookup threw).
GeoOf(c) == IF c % 3 = 1 THEN Jakarta ELSE IF c % 3 = 2 THEN Singapore ELSE NULL

LookupResults(c) == {NULL, GeoOf(c)}

\* Lookup results on the equator and the prime meridian, and one where
\* geoip-lite has no ll for the address.
PointZero == [country |-> "ZZ", region |-> "", city |-> "Zero",
              latitude |-> 0, longitude |-> 0]

PointEast == [country |-> "ZZ", region |-> "", city |-> "East",
              latitude |-> 0, longitude |-> 1]

Unlocated == [country |-> "ID", region |-> "", city |-> "",
              latitude |-> NoCoord, longitude |-> NoCoord]

\* What the lookup may resolve to when addresses on the zero lines are
\* among the clients'.
GeoPoints(c) ==
    IF c % 3 = 1 THEN {PointZero, Jakarta}
    ELSE IF c % 3 = 2 THEN {PointEast, Unlocated}
    ELSE {NULL, Jakarta}

\* The nickname each client types, and what the nickname field of its
\* join-system payload may hold (NoNick: left out).
NickOf(c) == IF c % 3 = 1 THEN "ann" ELSE IF c % 3 = 2 THEN "bob" ELSE NoNick

Nicknames(c) == {NoNick, NickOf(c)}

\* ------------------------------------------------- LocationService
\* JavaScript !x for a coordinate: null and 0 are falsy.
Falsy(x) == x = NoCoord \/ x = 0

\* R * c rounded, for the coordinate pairs the model uses (degrees).
Haversine(lat1, lon1, lat2, lon2) ==
    IF lat1 = lat2 /\ lon1 = lon2 THEN 0
    ELSE IF {<<lat1, lon1>>, <<lat2, lon2>>} = {<<-6, 107>>, <<1, 104>>} THEN 847
    ELSE IF {<<lat1, lon1>>, <<lat2, lon2>>} = {<<0, 1>>, <<-6, 107>>} THEN 11777
    ELSE IF {<<lat1, lon1>>, <<lat2, lon2>>} = {<<0, 1>>, <<1, 104>>} THEN 11453
    ELSE IF {<<lat1, lon1>>, <<lat2, lon2>>} = {<<0, 0>>, <<0, 1>>} THEN 111
    ELSE IF {<<lat1, lon1>>, <<lat2, lon2>>} = {<<0, 0>>, <<-6, 107>>} THEN 11887
    ELSE 11564

calculateDistance(lat1, lon1, lat2, lon2) ==
    IF Falsy(lat1) \/ Falsy(lon1) \/ Falsy(lat2) \/ Falsy(lon2) THEN NoDistance
    ELSE Haversine(lat1, lon1, lat2, lon2)

\* ----------------------------------------------------- ChatManager
RECURSIVE filterOut(_, _)
\* waitingUsers.filter(user => user.socketId !== socketId)
filterOut(q, socketId) ==
    IF q = <<>> THEN <<>>
    ELSE IF Head(q).socketId # socketId
         THEN <<Head(q)>> \o filterOut(Tail(q), socketId)
         ELSE filterOut(Tail(q), socketId)

addWaitingUser(q, socketId, userInfo) ==
    Append(q, [socketId |-> socketId, nickname |-> userInfo.nickname,
               location |-> userInfo.location])

\* removeWaitingUser that empties the queue.
removeWaitingUserAll(q, socketId) == <<>>

\* removeWaitingUser that takes out the socket's first entry only.
removeWaitingUserFirstOnly(q, socketId) ==
    LET hits == {i \in DOMAIN q : q[i].socketId = socketId}
    IN  IF hits = {} THEN q
        ELSE LET k == CHOOSE i \in hits : \A j \in hits : i <= j
             IN  SubSeq(q, 1, k - 1) \o SubSeq(q, k + 1, Len(q))

\* removeWaitingUser that filters nothing.
removeWaitingUserNoop(q, socketId) == q

removeWaitingUser(q, socketId) == filterOut(q, socketId)

\* findMatch without the self-exclusion filter.
findMatchNoSelfCheck(q, currentSocketId) ==
    LET availableUsers == q
    IN  IF Len(availableUsers) > 0
        THEN LET matchedUser == availableUsers[1]
             IN  [match |-> matchedUser,
                  waitingUsers |->
                      removeWaitingUser(removeWaitingUser(q, currentSocketId),
                                        matchedUser.socketId)]
        ELSE [match |-> NULL, waitingUsers |-> q]

\* findMatch that forgets to take the matched entry out of the queue.
findMatchKeepsMatched(q, currentSocketId) ==
    LET availableUsers == filterOut(q, currentSocketId)
    IN  IF Len(availableUsers) > 0
        THEN [match |-> availableUsers[1],
              waitingUsers |-> removeWaitingUser(q, currentSocketId)]
        ELSE [match |-> NULL, waitingUsers |-> q]

\* findMatch that never finds anybody.
findMatchNever(q, currentSocketId) == [match |-> NULL, waitingUsers |-> q]

\* findMatch that takes the latest eligible entry.
findMatchLast(q, currentSocketId) ==
    LET availableUsers == filterOut(q, currentSocketId)
    IN  IF Len(availableUsers) > 0
        THEN LET matchedUser == availableUsers[Len(availableUsers)]
             IN  [match |-> matchedUser,
                  waitingUsers |->
                      removeWaitingUser(removeWaitingUser(q, currentSocketId),
                                        matchedUser.socketId)]
        ELSE [match |-> NULL, waitingUsers |-> q]

\* findMatch that takes out the matched entry but not the other entries of
\* the same socket.
findMatchTakesOneEntry(q, currentSocketId) ==
    LET availableUsers == filterOut(q, currentSocketId)
    IN  IF Len(availableUsers) > 0
        THEN LET matchedUser == availableUsers[1]
             IN  [match |-> matchedUser,
                  waitingUsers |->
                      removeWaitingUserFirstOnly(removeWaitingUser(q, currentSocketId),
                                                 matchedUser.socketId)]
        ELSE [match |-> NULL, waitingUsers |-> q]

\* The matched entry (or NULL) and the queue findMatch leaves behind.
findMatch(q, currentSocketId) ==
    LET availableUsers == filterOut(q, currentSocketId)
    IN  IF Len(availableUsers) > 0
        THEN LET matchedUser == availableUsers[1]
             IN  [match |-> matchedUser,
                  waitingUsers |->
                      removeWaitingUser(removeWaitingUser(q, currentSocketId),
                                        matchedUser.socketId)]
        ELSE [match |-> NULL, waitingUsers |-> q]

createRoom(roomId, user1, user2) ==
    [id |-> roomId, user1 |-> user1, user2 |-> user2, messages |-> <<>>,
     distance |->
        IF user1.location # NULL /\ user2.location # NULL
        THEN calculateDistance(user1.location.latitude, user1.location.longitude,
                               user2.location.latitude, user2.location.longitude)
        ELSE NoDistance]

\* getRoomBySocketId that never finds a room.
getRoomBySocketIdNone(rooms, socketId) == NULL

\* getRoomBySocketId that looks at user1 only.
getRoomBySocketIdUser1Only(rooms, socketId) ==
    LET hits == {r \in DOMAIN rooms : rooms[r].user1.socketId = socketId}
    IN  IF hits = {} THEN NULL
        ELSE rooms[CHOOSE r \in hits : \A s \in hits : r <= s]

\* getRoomBySocketId that answers the first room, whoever asks.
getRoomBySocketIdAny(rooms, socketId) ==
    IF DOMAIN rooms = {} THEN NULL
    ELSE rooms[CHOOSE r \in DOMAIN rooms : \A s \in DOMAIN rooms : r <= s]

\* Map iteration is insertion order; room ids are handed out in increasing
\* order, so the first hit is the smallest id.
getRoomBySocketId(rooms, socketId) ==
    LET hits == {r \in DOMAIN rooms : rooms[r].user1.socketId = socketId
                                      \/ rooms[r].user2.socketId = socketId}
    IN  IF hits = {} THEN NULL
        ELSE rooms[CHOOSE r \in hits : \A s \in hits : r <= s]

\* removeRoom that deletes nothing.
removeRoomNoop(rooms, roomId) == rooms

removeRoom(rooms, roomId) == [r \in DOMAIN rooms \ {roomId} |-> rooms[r]]

\* getPartnerSocketId with the two branches swapped: it answers the asker.
getPartnerSocketIdSelf(rooms, roomId, currentSocketId) ==
    IF roomId \notin DOMAIN rooms THEN NoSocket
    ELSE IF rooms[roomId].user1.socketId = currentSocketId
         THEN rooms[roomId].user1.socketId
    ELSE IF rooms[roomId].user2.socketId = currentSocketId
         THEN rooms[roomId].user2.socketId
    ELSE NoSocket

getPartnerSocketId(rooms, roomId, currentSocketId) ==
    IF roomId \notin DOMAIN rooms THEN NoSocket
    ELSE IF rooms[roomId].user1.socketId = currentSocketId
         THEN rooms[roomId].user2.socketId
    ELSE IF rooms[roomId].user2.socketId = currentSocketId
         THEN rooms[roomId].user1.socketId
    ELSE NoSocket

getPartnerInfo(rooms, roomId, currentSocketId) ==
    IF roomId \notin DOMAIN rooms THEN NULL
    ELSE IF rooms[roomId].user1.socketId = currentSocketId THEN rooms[roomId].user2
    ELSE IF rooms[roomId].user2.socketId = currentSocketId THEN rooms[roomId].user1
    ELSE NULL

\* addMessageToRoom that puts the message at the front of the log.
addMessageToRoomFront(rooms, roomId, message) ==
    IF roomId \in DOMAIN rooms
    THEN [rooms EXCEPT ![roomId].messages = <<message>> \o @]
    ELSE rooms

\* addMessageToRoom that pushes the message twice.
addMessageToRoomTwice(rooms, roomId, message) ==
    IF roomId \in DOMAIN rooms
    THEN [rooms EXCEPT ![roomId].messages = Append(Append(@, message), message)]
    ELSE rooms

addMessageToRoom(rooms, roomId, message) ==
    IF roomId \in DOMAIN rooms
    THEN [rooms EXCEPT ![roomId].messages = Append(@, message)]
    ELSE rooms

\* ------------------------------------------------------ relay transport
RECURSIVE SetToSeq(_)
SetToSeq(S) ==
    IF S = {} THEN <<>>
    ELSE LET x == CHOOSE y \in S : \A z \in S : y <= z
         IN  <<x>> \o SetToSeq(S \ {x})

\* A socket lookup that never finds the socket.
ConnectedNever(c) == FALSE

\* A socket id names that socket's own group while it is connected, a room
\* id names the relay group.
Connected(c) == conn[c] \in {"lookup", "open"}

\* The sockets io.to(target) reaches, given who is connected and who joined
\* which group.
RecipientsIn(status, groups, target) ==
    IF target \in Conns
    THEN IF status[target] \in {"lookup", "open"} THEN {target} ELSE {}
    ELSE IF target \in RoomIds THEN groups[target]
    ELSE {}

Recipients(target) == RecipientsIn(conn, joined, target)

Delivered(tos, name, data) ==
    [i \in 1..Len(tos) |-> [to |-> tos[i], name |-> name, data |-> data]]

\* socket.emit that reaches every connected socket.
socketEmitBroadcast(socketId, name, data) ==
    Delivered(SetToSeq({c \in Conns : Connected(c)}), name, data)

\* socket.emit(name, data)
socketEmit(socketId, name, data) == Delivered(<<socketId>>, name, data)

\* io.to(target).emit that reaches nobody.
ioToEmitNobody(target, name, data) == <<>>

\* io.to(target).emit(name, data)
ioToEmit(target, name, data) == Delivered(SetToSeq(Recipients(target)), name, data)

\* Where a socket stands when an event of its own arrives: in a room, in the
\* waiting queue, registered only, or not registered.
Standing(socketId) ==
    IF \E r \in DOMAIN activeRooms :
          socketId \in {activeRooms[r].user1.socketId, activeRooms[r].user2.socketId}
    THEN "room"
    ELSE IF \E i \in DOMAIN waitingUsers : waitingUsers[i].socketId = socketId
    THEN "waiting"
    ELSE IF socketId \in DOMAIN userSockets THEN "idle"
    ELSE "new"

\* An inbound event, with where its sender stood when it arrived.
Inbound(name, socketId) ==
    [name |-> name, socket |-> socketId, was |-> Standing(socketId)]

\* An inbound event whose payload names a caller.
InboundNaming(name, socketId, callerId) ==
    [name |-> name, socket |-> socketId, was |-> Standing(socketId),
     callerId |-> callerId]

\* ------------------------------------------------------------- Init
Init ==
    /\ conn = [c \in Conns |-> "absent"]
    /\ userLocation = [c \in Conns |-> NULL]
    /\ userSockets = <<>>
    /\ waitingUsers = <<>>
    /\ activeRooms = <<>>
    /\ joined = [r \in RoomIds |-> {}]
    /\ uuidCount = 0
    /\ outbox = <<>>
    /\ lastEvent = Inbound("none", NoSocket)

\* ---------------------------------------------------------- actions
\* io.on('connection'): the handler starts and awaits the lookup.
Connect(c) ==
    /\ conn[c] = "absent"
    /\ conn' = [conn EXCEPT ![c] = "lookup"]
    /\ outbox' = <<>>
    /\ lastEvent' = Inbound("connection", c)
    /\ UNCHANGED <<userLocation, userSockets, waitingUsers, activeRooms,
                   joined, uuidCount>>

\* The await resolves to loc; the handlers are registered.
LookupDone(c, loc) ==
    /\ conn[c] = "lookup"
    /\ userLocation' = [userLocation EXCEPT ![c] = loc]
    /\ conn' = [conn EXCEPT ![c] = "open"]
    /\ outbox' = <<>>
    /\ lastEvent' = Inbound("lookup-done", c)
    /\ UNCHANGED <<userSockets, waitingUsers, activeRooms, joined, uuidCount>>


\* A join-system that arrives while the connection handler still awaits
\* the lookup: socket.on('join-system') has not run yet, so the socket has
\* no listener for it and the event is dropped.
JoinSystemUnheard(c) ==
    /\ conn[c] = "lookup"
    /\ lastEvent' = Inbound("join-system", c)
    /\ outbox' = <<>>
    /\ UNCHANGED <<conn, userLocation, userSockets, waitingUsers, activeRooms,
                   joined, uuidCount>>

\* userSockets.set(socketId, profile)
mapSet(map, key, value) ==
    [k \in DOMAIN map \cup {key} |-> IF k = key THEN value ELSE map[k]]

\* userSockets.delete that deletes nothing.
mapDeleteNoop(map, key) == map

\* userSockets.delete that clears the whole map.
mapDeleteClears(map, key) == <<>>

\* userSockets.delete(socketId)
mapDelete(map, key) == [k \in DOMAIN map \ {key} |-> map[k]]

\* join-system that refuses a socket whose lookup found nothing.
JoinSystemNeedsLocation(c, nick) ==
    /\ conn[c] = "open"
    /\ lastEvent' = Inbound("join-system", c)
    /\ IF userLocation[c] = NULL
       THEN /\ outbox' = socketEmit(c, "error", [message |-> "Location unavailable"])
            /\ UNCHANGED userSockets
       ELSE /\ userSockets' = mapSet(userSockets, c,
                                     [socketId |-> c, nickname |-> nick,
                                      location |-> userLocation[c]])
            /\ outbox' = socketEmit(c, "joined-system",
                                    [success |-> TRUE, socketId |-> c,
                                     location |-> userLocation[c]])
    /\ UNCHANGED <<conn, userLocation, waitingUsers, activeRooms, joined, uuidCount>>

\* join-system that refuses a socket that has joined before.
JoinSystemOnce(c, nick) ==
    /\ conn[c] = "open"
    /\ lastEvent' = Inbound("join-system", c)
    /\ IF c \in DOMAIN userSockets
       THEN /\ outbox' = socketEmit(c, "error", [message |-> "Already joined"])
            /\ UNCHANGED userSockets
       ELSE /\ userSockets' = mapSet(userSockets, c,
                                     [socketId |-> c, nickname |-> nick,
                                      location |-> userLocation[c]])
            /\ outbox' = socketEmit(c, "joined-system",
                                    [success |-> TRUE, socketId |-> c,
                                     location |-> userLocation[c]])
    /\ UNCHANGED <<conn, userLocation, waitingUsers, activeRooms, joined, uuidCount>>

\* join-system that also rewrites the caller's waiting entries with the new
\* profile.
JoinSystemRefreshesQueue(c, nick) ==
    /\ conn[c] = "open"
    /\ lastEvent' = Inbound("join-system", c)
    /\ userSockets' = mapSet(userSockets, c,
                             [socketId |-> c, nickname |-> nick,
                              location |-> userLocation[c]])
    /\ waitingUsers' = [i \in DOMAIN waitingUsers |->
                          IF waitingUsers[i].socketId = c
                          THEN [waitingUsers[i] EXCEPT !.nickname = nick]
                          ELSE waitingUsers[i]]
    /\ outbox' = socketEmit(c, "joined-system",
                            [success |-> TRUE, socketId |-> c,
                             location |-> userLocation[c]])
    /\ UNCHANGED <<conn, userLocation, activeRooms, joined, uuidCount>>

JoinSystem(c, nick) ==
    /\ conn[c] = "open"
    /\ lastEvent' = Inbound("join-system", c)
    /\ userSockets' = mapSet(userSockets, c,
                             [socketId |-> c, nickname |-> nick,
                              location |-> userLocation[c]])
    /\ outbox' = socketEmit(c, "joined-system",
                            [success |-> TRUE, socketId |-> c,
                             location |-> userLocation[c]])
    /\ UNCHANGED <<conn, userLocation, waitingUsers, activeRooms, joined, uuidCount>>

\* nickname || 'Anonymous'
OrAnonymous(nickname) == IF nickname = NoNick THEN "Anonymous" ELSE nickname

\* partnerLocationInfo / userLocationInfo
LocationInfo(location, distance) ==
    IF location # NULL
    THEN [country |-> location.country, city |-> location.city,
          region |-> location.region, distance |-> distance]
    ELSE NULL

\* Room info that always describes the caller, whoever it is sent to.
RoomInfoOfCaller(room, partner) ==
    [roomId |-> room.id, partnerId |-> room.user1.socketId,
     partnerInfo |-> [nickname |-> IF room.user1.nickname = NoNick THEN "Anonymous"
                                   ELSE room.user1.nickname,
                      location |-> IF room.user1.location # NULL
                                   THEN [country |-> room.user1.location.country,
                                         city |-> room.user1.location.city,
                                         region |-> room.user1.location.region,
                                         distance |-> room.distance]
                                   ELSE NULL]]

\* roomInfo / partnerRoomInfo
RoomInfo(room, partner) ==
    [roomId |-> room.id, partnerId |-> partner.socketId,
     partnerInfo |-> [nickname |-> OrAnonymous(partner.nickname),
                      location |-> LocationInfo(partner.location, room.distance)]]

FindPartner(c) ==
    /\ conn[c] = "open"
    /\ lastEvent' = Inbound("find-partner", c)
    /\ IF c \notin DOMAIN userSockets
       THEN /\ outbox' = socketEmit(c, "error", [message |-> "User not found in system"])
            /\ UNCHANGED <<waitingUsers, activeRooms, joined, uuidCount>>
       ELSE IF getRoomBySocketId(activeRooms, c) # NULL
       THEN /\ outbox' = socketEmit(c, "error", [message |-> "Already in a chat room"])
            /\ UNCHANGED <<waitingUsers, activeRooms, joined, uuidCount>>
       ELSE LET userInfo == userSockets[c]
                found == findMatch(waitingUsers, c)
                match == found.match
            IN  IF match # NULL
                THEN LET room == createRoom(uuidv4(uuidCount + 1), userInfo, match)
                     IN  /\ uuidCount < MaxRooms
                         /\ uuidCount' = uuidCount + 1
                         /\ waitingUsers' = found.waitingUsers
                         /\ activeRooms' = mapSet(activeRooms, room.id, room)
                         /\ joined' = [joined EXCEPT ![room.id] =
                               @ \cup {c} \cup {m \in {match.socketId} : Connected(m)}]
                         /\ outbox' = socketEmit(c, "partner-found", RoomInfo(room, match))
                                       \o ioToEmit(match.socketId, "partner-found",
                                                   RoomInfo(room, userInfo))
                ELSE /\ Len(waitingUsers) < MaxQueue
                     /\ waitingUsers' = addWaitingUser(found.waitingUsers, c, userInfo)
                     /\ outbox' = socketEmit(c, "searching-partner", NULL)
                     /\ UNCHANGED <<activeRooms, joined, uuidCount>>
    /\ UNCHANGED <<conn, userLocation, userSockets>>

\* The three send-* handlers differ only in the message they build; limit
\* bounds the length of the log.
SendUpTo(c, inbound, type, limit) ==
    /\ conn[c] = "open"
    /\ lastEvent' = Inbound(inbound, c)
    /\ LET room == getRoomBySocketId(activeRooms, c)
       IN  IF room = NULL
           THEN /\ outbox' = socketEmit(c, "error", [message |-> "Not in any chat room"])
                /\ UNCHANGED activeRooms
           ELSE LET message == [type |-> type, senderId |-> c]
                IN  /\ Len(room.messages) < limit
                    /\ activeRooms' = addMessageToRoom(activeRooms, room.id, message)
                    /\ outbox' = ioToEmit(room.id, "new-message", message)
    /\ UNCHANGED <<conn, userLocation, userSockets, waitingUsers, joined, uuidCount>>

Send(c, inbound, type) == SendUpTo(c, inbound, type, MaxMsgs)

SendMediaMessage(c) == Send(c, "send-media-message", "media")

SendMessage(c) == Send(c, "send-message", "text")

SendVoiceMessage(c) == Send(c, "send-voice-message", "voice")

GetPartnerLocation(c) ==
    /\ conn[c] = "open"
    /\ lastEvent' = Inbound("get-partner-location", c)
    /\ LET room == getRoomBySocketId(activeRooms, c)
       IN  IF room = NULL
           THEN outbox' = socketEmit(c, "error", [message |-> "Not in any chat room"])
           ELSE LET partnerInfo == getPartnerInfo(activeRooms, room.id, c)
                IN  outbox' =
                       IF partnerInfo # NULL /\ partnerInfo.location # NULL
                       THEN socketEmit(c, "partner-location",
                               [location |-> LocationInfo(partnerInfo.location,
                                                          room.distance)])
                       ELSE socketEmit(c, "partner-location",
                               [location |-> NULL,
                                message |-> "Partner location not available"])
    /\ UNCHANGED <<conn, userLocation, userSockets, waitingUsers, activeRooms,
                   joined, uuidCount>>

\* stop-chat that notifies and leaves the relay group but forgets removeRoom.
StopChatKeepsRoom(c) ==
    /\ conn[c] = "open"
    /\ lastEvent' = Inbound("stop-chat", c)
    /\ waitingUsers' = removeWaitingUser(waitingUsers, c)
    /\ LET room == getRoomBySocketId(activeRooms, c)
       IN  IF room # NULL
           THEN LET partnerSocketId == getPartnerSocketId(activeRooms, room.id, c)
                IN  /\ outbox' =
                          (IF partnerSocketId # NoSocket
                           THEN ioToEmit(partnerSocketId, "partner-disconnected", NULL)
                           ELSE <<>>)
                          \o socketEmit(c, "chat-stopped", NULL)
                    /\ joined' = [joined EXCEPT ![room.id] = @ \ {c}]
                    /\ UNCHANGED activeRooms
           ELSE /\ outbox' = socketEmit(c, "chat-stopped", NULL)
                /\ UNCHANGED <<activeRooms, joined>>
    /\ UNCHANGED <<conn, userLocation, userSockets, uuidCount>>

\* stop-chat whose chat-stopped is emitted inside the if (room) block only.
StopChatSilentWithoutRoom(c) ==
    /\ conn[c] = "open"
    /\ lastEvent' = Inbound("stop-chat", c)
    /\ waitingUsers' = removeWaitingUser(waitingUsers, c)
    /\ LET room == getRoomBySocketId(activeRooms, c)
       IN  IF room # NULL
           THEN LET partnerSocketId == getPartnerSocketId(activeRooms, room.id, c)
                IN  /\ outbox' =
                          (IF partnerSocketId # NoSocket
                           THEN ioToEmit(partnerSocketId, "partner-disconnected", NULL)
                           ELSE <<>>)
                          \o socketEmit(c, "chat-stopped", NULL)
                    /\ activeRooms' = removeRoom(activeRooms, room.id)
                    /\ joined' = [joined EXCEPT ![room.id] = @ \ {c}]
           ELSE /\ outbox' = <<>>
                /\ UNCHANGED <<activeRooms, joined>>
    /\ UNCHANGED <<conn, userLocation, userSockets, uuidCount>>

StopChat(c) ==
    /\ conn[c] = "open"
    /\ lastEvent' = Inbound("stop-chat", c)
    /\ waitingUsers' = removeWaitingUser(waitingUsers, c)
    /\ LET room == getRoomBySocketId(activeRooms, c)
       IN  IF room # NULL
           THEN LET partnerSocketId == getPartnerSocketId(activeRooms, room.id, c)
                IN  /\ outbox' =
                          (IF partnerSocketId # NoSocket
                           THEN ioToEmit(partnerSocketId, "partner-disconnected", NULL)
                           ELSE <<>>)
                          \o socketEmit(c, "chat-stopped", NULL)
                    /\ activeRooms' = removeRoom(activeRooms, room.id)
                    /\ joined' = [joined EXCEPT ![room.id] = @ \ {c}]
           ELSE /\ outbox' = socketEmit(c, "chat-stopped", NULL)
                /\ UNCHANGED <<activeRooms, joined>>
    /\ UNCHANGED <<conn, userLocation, userSockets, uuidCount>>

\* A disconnect handler that notifies the partner but forgets removeRoom.
OnDisconnectKeepsRoom(c) ==
    /\ waitingUsers' = removeWaitingUser(waitingUsers, c)
    /\ userSockets' = mapDelete(userSockets, c)
    /\ LET room == getRoomBySocketId(activeRooms, c)
       IN  IF room # NULL
           THEN LET partnerSocketId == getPartnerSocketId(activeRooms, room.id, c)
                IN  /\ outbox' =
                          IF partnerSocketId # NoSocket
                          THEN Delivered(SetToSeq(RecipientsIn(conn', joined',
                                                               partnerSocketId)),
                                         "partner-disconnected", NULL)
                          ELSE <<>>
                    /\ UNCHANGED activeRooms
           ELSE /\ outbox' = <<>>
                /\ UNCHANGED activeRooms

\* The body of the disconnect handler.
OnDisconnect(c) ==
    /\ waitingUsers' = removeWaitingUser(waitingUsers, c)
    /\ userSockets' = mapDelete(userSockets, c)
    /\ LET room == getRoomBySocketId(activeRooms, c)
       IN  IF room # NULL
           THEN LET partnerSocketId == getPartnerSocketId(activeRooms, room.id, c)
                IN  /\ outbox' =
                          IF partnerSocketId # NoSocket
                          THEN Delivered(SetToSeq(RecipientsIn(conn', joined',
                                                               partnerSocketId)),
                                         "partner-disconnected", NULL)
                          ELSE <<>>
                    /\ activeRooms' = removeRoom(activeRooms, room.id)
           ELSE /\ outbox' = <<>>
                /\ UNCHANGED activeRooms

\* The transport closes the socket: Socket.IO takes it out of every relay
\* group, then fires 'disconnect'.
Disconnect(c) ==
    /\ conn[c] = "open"
    /\ lastEvent' = Inbound("disconnect", c)
    /\ conn' = [conn EXCEPT ![c] = "closed"]
    /\ joined' = [r \in RoomIds |-> joined[r] \ {c}]
    /\ OnDisconnect(c)
    /\ UNCHANGED <<userLocation, uuidCount>>

\* The disconnect handler served once more for a socket already closed.
DisconnectAgain(c) ==
    /\ conn[c] = "closed"
    /\ lastEvent' = Inbound("disconnect-again", c)
    /\ UNCHANGED <<conn, userLocation, joined, uuidCount>>
    /\ OnDisconnect(c)

\* ------------------------------------------------ call and typing events
\* initiate-*-call: an error without a room, else one event to the partner.
Initiate(c, inbound, outbound) ==
    /\ conn[c] = "open"
    /\ lastEvent' = Inbound(inbound, c)
    /\ LET room == getRoomBySocketId(activeRooms, c)
       IN  IF room = NULL
           THEN outbox' = socketEmit(c, "error", [message |-> "Not in any chat room"])
           ELSE LET partnerSocketId == getPartnerSocketId(activeRooms, room.id, c)
                IN  outbox' =
                       IF partnerSocketId # NoSocket
                       THEN ioToEmit(partnerSocketId, outbound,
                               [callerId |-> c,
                                callerNickname |->
                                   IF c \in DOMAIN userSockets
                                   THEN OrAnonymous(userSockets[c].nickname)
                                   ELSE "Anonymous"])
                       ELSE <<>>
    /\ UNCHANGED <<conn, userLocation, userSockets, waitingUsers, activeRooms,
                   joined, uuidCount>>

\* accept-*-call / reject-*-call: forwarded to whatever callerId names.
Answer(c, callerId, inbound, outbound, data) ==
    /\ conn[c] = "open"
    /\ lastEvent' = InboundNaming(inbound, c, callerId)
    /\ outbox' = ioToEmit(callerId, outbound, data)
    /\ UNCHANGED <<conn, userLocation, userSockets, waitingUsers, activeRooms,
                   joined, uuidCount>>

\* A forward that addresses the room's relay group instead of the partner.
ForwardToRoom(c, inbound, outbound, data) ==
    /\ conn[c] = "open"
    /\ lastEvent' = Inbound(inbound, c)
    /\ LET room == getRoomBySocketId(activeRooms, c)
       IN  IF room # NULL
           THEN outbox' = ioToEmit(room.id, outbound, data)
           ELSE outbox' = <<>>
    /\ UNCHANGED <<conn, userLocation, userSockets, waitingUsers, activeRooms,
                   joined, uuidCount>>

\* A forward that ends the chat as well: it removes the sender's room.
ForwardEndsChat(c, inbound, outbound, data) ==
    /\ conn[c] = "open"
    /\ lastEvent' = Inbound(inbound, c)
    /\ LET room == getRoomBySocketId(activeRooms, c)
       IN  IF room # NULL
           THEN LET partnerSocketId == getPartnerSocketId(activeRooms, room.id, c)
                IN  /\ outbox' = IF partnerSocketId # NoSocket
                                 THEN ioToEmit(partnerSocketId, outbound, data)
                                 ELSE <<>>
                    /\ activeRooms' = removeRoom(activeRooms, room.id)
           ELSE /\ outbox' = <<>>
                /\ UNCHANGED activeRooms
    /\ UNCHANGED <<conn, userLocation, userSockets, waitingUsers, joined, uuidCount>>

\* end-*-call, webrtc-*, typing-*: one event to the partner, nothing
\* without a room.
Forward(c, inbound, outbound, data) ==
    /\ conn[c] = "open"
    /\ lastEvent' = Inbound(inbound, c)
    /\ LET room == getRoomBySocketId(activeRooms, c)
       IN  IF room # NULL
           THEN LET partnerSocketId == getPartnerSocketId(activeRooms, room.id, c)
                IN  outbox' = IF partnerSocketId # NoSocket
                              THEN ioToEmit(partnerSocketId, outbound, data)
                              ELSE <<>>
           ELSE outbox' = <<>>
    /\ UNCHANGED <<conn, userLocation, userSockets, waitingUsers, activeRooms,
                   joined, uuidCount>>

InitiateVoiceCall(c) == Initiate(c, "initiate-voice-call", "incoming-voice-call")

AcceptVoiceCall(c, callerId) ==
    Answer(c, callerId, "accept-voice-call", "voice-call-accepted", [accepterId |-> c])

RejectVoiceCall(c, callerId) ==
    Answer(c, callerId, "reject-voice-call", "voice-call-rejected", [rejecterId |-> c])

EndVoiceCall(c) == Forward(c, "end-voice-call", "voice-call-ended", NULL)

InitiateVideoCall(c) == Initiate(c, "initiate-video-call", "incoming-video-call")

AcceptVideoCall(c, callerId) ==
    Answer(c, callerId, "accept-video-call", "video-call-accepted", [accepterId |-> c])

RejectVideoCall(c, callerId) ==
    Answer(c, callerId, "reject-video-call", "video-call-rejected", [rejecterId |-> c])

EndVideoCall(c) == Forward(c, "end-video-call", "video-call-ended", NULL)

WebrtcOffer(c) == Forward(c, "webrtc-offer", "webrtc-offer", [senderId |-> c])

WebrtcAnswer(c) == Forward(c, "webrtc-answer", "webrtc-answer", [senderId |-> c])

WebrtcIceCandidate(c) ==
    Forward(c, "webrtc-ice-candidate", "webrtc-ice-candidate", [senderId |-> c])

TypingStart(c) == Forward(c, "typing-start", "partner-typing-start", NULL)

TypingStop(c) == Forward(c, "typing-stop", "partner-typing-stop", NULL)

\* What a client may put in callerId: a socket id, or an id nobody has.
CallerIds == Conns \cup {NoSocket}

\* ----------------------------------------- ChatManager called directly
\* chatManager.addWaitingUser(c, userInfo)
AddWaitingUserCall(c, nick) ==
    /\ Len(waitingUsers) < MaxQueue
    /\ lastEvent' = Inbound("addWaitingUser", c)
    /\ waitingUsers' = addWaitingUser(waitingUsers, c,
                           [socketId |-> c, nickname |-> nick,
                            location |-> GeoOf(c)])
    /\ outbox' = <<>>
    /\ UNCHANGED <<conn, userLocation, userSockets, activeRooms, joined, uuidCount>>

\* chatManager.removeWaitingUser(c)
RemoveWaitingUserCall(c) ==
    /\ lastEvent' = Inbound("removeWaitingUser", c)
    /\ waitingUsers' = removeWaitingUser(waitingUsers, c)
    /\ outbox' = <<>>
    /\ UNCHANGED <<conn, userLocation, userSockets, activeRooms, joined, uuidCount>>

\* chatManager.findMatch(c); outbox holds the value returned to the caller.
FindMatchCall(c) ==
    /\ lastEvent' = Inbound("findMatch", c)
    /\ LET found == findMatch(waitingUsers, c)
       IN  /\ waitingUsers' = found.waitingUsers
           /\ outbox' = Delivered(<<c>>, "return", found.match)
    /\ UNCHANGED <<conn, userLocation, userSockets, activeRooms, joined, uuidCount>>

\* ------------------------------------------------------ specifications
\* Connection set-up with each client's own address and nickname.
Setup(c) ==
    \/ Connect(c)
    \/ LookupDone(c, GeoOf(c))
    \/ JoinSystem(c, NickOf(c))

\* Connection set-up where the lookup may fail and the nickname may be
\* left out or changed by a later join-system.
SetupAny(c) ==
    \/ Connect(c)
    \/ \E loc \in LookupResults(c) : LookupDone(c, loc)
    \/ \E nick \in Nicknames(c) : JoinSystem(c, nick)

Matchmaking(c) ==
    \/ FindPartner(c)
    \/ StopChat(c)
    \/ Disconnect(c)
    \/ DisconnectAgain(c)

Messaging(c) ==
    \/ SendMessage(c)
    \/ SendMediaMessage(c)
    \/ SendVoiceMessage(c)

Signaling(c) ==
    \/ InitiateVoiceCall(c)
    \/ \E callerId \in CallerIds : AcceptVoiceCall(c, callerId)
    \/ \E callerId \in CallerIds : RejectVoiceCall(c, callerId)
    \/ EndVoiceCall(c)
    \/ InitiateVideoCall(c)
    \/ \E callerId \in CallerIds : AcceptVideoCall(c, callerId)
    \/ \E callerId \in CallerIds : RejectVideoCall(c, callerId)
    \/ EndVideoCall(c)
    \/ WebrtcOffer(c)
    \/ WebrtcAnswer(c)
    \/ WebrtcIceCandidate(c)
    \/ TypingStart(c)
    \/ TypingStop(c)

\* Every handler.
Next ==
    \E c \in Conns :
        \/ Setup(c)
        \/ Matchmaking(c)
        \/ Messaging(c)
        \/ GetPartnerLocation(c)
        \/ Signaling(c)

Spec == Init /\ [][Next]_vars

\* join-system, find-partner, stop-chat and disconnect only.
NextMatch == \E c \in Conns : Setup(c) \/ Matchmaking(c)

SpecMatch == Init /\ [][NextMatch]_vars

\* The same with every lookup result and nickname.
NextProfile == \E c \in Conns : SetupAny(c) \/ Matchmaking(c)

SpecProfile == Init /\ [][NextProfile]_vars

\* Matchmaking and the send-* handlers.
NextChat == \E c \in Conns : Setup(c) \/ Matchmaking(c) \/ Messaging(c)

SpecChat == Init /\ [][NextChat]_vars

\* Pairing among clients whose lookups include the zero lines.
NextGeo ==
    \E c \in Conns :
        \/ Connect(c)
        \/ \E loc \in GeoPoints(c) : LookupDone(c, loc)
        \/ JoinSystem(c, NickOf(c))
        \/ FindPartner(c)
        \/ StopChat(c)

SpecGeo == Init /\ [][NextGeo]_vars

\* Matchmaking and the events relayed to the partner.
NextRelay ==
    \E c \in Conns :
        \/ Setup(c)
        \/ Matchmaking(c)
        \/ InitiateVoiceCall(c)
        \/ InitiateVideoCall(c)
        \/ WebrtcOffer(c)
        \/ WebrtcAnswer(c)
        \/ WebrtcIceCandidate(c)
        \/ TypingStart(c)
        \/ TypingStop(c)

SpecRelay == Init /\ [][NextRelay]_vars

\* Connecting and joining, with the joins that arrive during the lookup.
NextJoin ==
    \E c \in Conns :
        \/ SetupAny(c)
        \/ JoinSystemUnheard(c)
        \/ Disconnect(c)

SpecJoin == Init /\ [][NextJoin]_vars

\* Pairing, leaving and longer conversations of text and voice messages.
NextLog ==
    \E c \in Conns :
        \/ Setup(c)
        \/ FindPartner(c)
        \/ StopChat(c)
        \/ SendUpTo(c, "send-message", "text", MaxLog)
        \/ SendUpTo(c, "send-voice-message", "voice", MaxLog)

SpecLog == Init /\ [][NextLog]_vars

\* Matchmaking and every handler that can answer with an error event.
NextGuarded ==
    \E c \in Conns :
        \/ Setup(c)
        \/ Matchmaking(c)
        \/ Messaging(c)
        \/ GetPartnerLocation(c)
        \/ InitiateVoiceCall(c)
        \/ InitiateVideoCall(c)

SpecGuarded == Init /\ [][NextGuarded]_vars

\* The waiting queue of a ChatManager driven through its own methods.
NextQueue ==
    \E c \in Conns :
        \/ \E nick \in Nicknames(c) : AddWaitingUserCall(c, nick)
        \/ RemoveWaitingUserCall(c)
        \/ FindMatchCall(c)

SpecQueue == Init /\ [][NextQueue]_vars

\* ------------------------------------------------------------- claims
Members(room) == {room.user1.socketId, room.user2.socketId}

RoomsOf(rooms, c) == {r \in DOMAIN rooms : c \in Members(rooms[r])}

\* How many entries of the queue belong to c.
Entries(q, c) == Cardinality({i \in DOMAIN q : q[i].socketId = c})

Waiting(q) == {q[i].socketId : i \in DOMAIN q}

\* How many events named name the last handler delivered to c.
Got(box, c, name) ==
    Cardinality({i \in DOMAIN box : box[i].to = c /\ box[i].name = name})

Served(name, c) == lastEvent' = Inbound(name, c)

\* C1: whatever join-system / find-partner / stop-chat / disconnect events
\* arrive, no connection is a member of two active rooms and no two active
\* rooms share a member.
C1_OneRoomPerConnection ==
    /\ \A c \in Conns : Cardinality(RoomsOf(activeRooms, c)) <= 1
    /\ \A r1, r2 \in DOMAIN activeRooms :
          r1 # r2 => Members(activeRooms[r1]) \cap Members(activeRooms[r2]) = {}

\* A room member has just asked for a partner while somebody else was
\* waiting, and was turned down.
C1_Witness ==
    /\ lastEvent.name = "find-partner"
    /\ RoomsOf(activeRooms, lastEvent.socket) # {}
    /\ Waiting(waitingUsers) \ {lastEvent.socket} # {}
    /\ Got(outbox, lastEvent.socket, "error") = 1

\* C2: every active room has exactly two distinct members, both of them
\* connections; find-partner never pairs a connection with itself, also when
\* its own id is in the queue.
C2_TwoDistinctMembers ==
    \A r \in DOMAIN activeRooms :
        /\ activeRooms[r].user1.socketId \in Conns
        /\ activeRooms[r].user2.socketId \in Conns
        /\ activeRooms[r].user1.socketId # activeRooms[r].user2.socketId

\* A connection that was already in the queue has asked again, and is in
\* the queue twice and in no room.
C2_Witness ==
    /\ lastEvent.name = "find-partner"
    /\ Entries(waitingUsers, lastEvent.socket) >= 2
    /\ RoomsOf(activeRooms, lastEvent.socket) = {}

\* C3: find-partner on an empty queue enqueues the caller once and answers
\* searching-partner; a second find-partner from the same connection, still
\* waiting, answers an error and leaves exactly one entry for it.
C3_SecondFindPartnerRejected ==
    [][\A c \in Conns :
          (/\ Served("find-partner", c)
           /\ c \in DOMAIN userSockets
           /\ RoomsOf(activeRooms, c) = {})
          => /\ waitingUsers = <<>> =>
                   /\ Entries(waitingUsers', c) = 1
                   /\ Len(waitingUsers') = 1
                   /\ Got(outbox', c, "searching-partner") = 1
             /\ Entries(waitingUsers, c) = 1 =>
                   /\ Got(outbox', c, "error") = 1
                   /\ Entries(waitingUsers', c) = 1]_vars

\* C4: no connection id is in the waiting queue more than once.
C4_NoDuplicateWaiting ==
    \A c \in Conns : Entries(waitingUsers, c) <= 1

\* The first waiting entry that is not b's: the one find-partner from b takes.
FirstOther(q, b) ==
    q[CHOOSE i \in DOMAIN q :
         /\ q[i].socketId # b
         /\ \A j \in DOMAIN q : q[j].socketId # b => i <= j]

\* Event e tells its receiver that its partner in room r is the connection
\* with this profile.
NamesPartner(e, r, profile) ==
    /\ e.name = "partner-found"
    /\ e.data.roomId = r
    /\ e.data.partnerId = profile.socketId
    /\ e.data.partnerInfo.nickname =
          (IF profile.nickname = "" THEN "Anonymous" ELSE profile.nickname)
    /\ IF profile.location = NULL
       THEN e.data.partnerInfo.location = NULL
       ELSE /\ e.data.partnerInfo.location # NULL
            /\ e.data.partnerInfo.location.country = profile.location.country
            /\ e.data.partnerInfo.location.city = profile.location.city
            /\ e.data.partnerInfo.location.region = profile.location.region

\* C5: when a is waiting and a registered, room-less b asks for a partner,
\* that one step creates one room with members a and b, leaves neither in
\* the queue, and delivers exactly one partner-found to each, both with the
\* new room's id, a's naming b (b's registered profile) and b's naming a
\* (the profile in a's waiting entry).
C5_PairingStep ==
    [][\A a, b \in Conns :
          (/\ a # b
           /\ Served("find-partner", b)
           /\ a \in Waiting(waitingUsers)
           /\ b \in DOMAIN userSockets
           /\ RoomsOf(activeRooms, b) = {})
          => LET created == DOMAIN activeRooms' \ DOMAIN activeRooms
                 entry == FirstOther(waitingUsers, b)
             IN  /\ Cardinality(created) = 1
                 /\ \A r \in DOMAIN activeRooms :
                       r \in DOMAIN activeRooms' /\ activeRooms'[r] = activeRooms[r]
                 /\ Waiting(waitingUsers') \cap {a, b} = {}
                 /\ Len(outbox') = 2
                 /\ Got(outbox', a, "partner-found") = 1
                 /\ Got(outbox', b, "partner-found") = 1
                 /\ \A r \in created :
                       /\ Members(activeRooms'[r]) = {a, b}
                       /\ entry.socketId = a
                       /\ \A i \in DOMAIN outbox' :
                             /\ outbox'[i].to = a =>
                                   NamesPartner(outbox'[i], r, userSockets[b])
                             /\ outbox'[i].to = b =>
                                   NamesPartner(outbox'[i], r, entry)]_vars

\* A pairing has just happened between two connections whose nicknames and
\* locations differ, both located.
C5_Witness ==
    /\ lastEvent.name = "find-partner"
    /\ Len(outbox) = 2
    /\ outbox[1].name = "partner-found"
    /\ outbox[2].name = "partner-found"
    /\ outbox[1].data.partnerInfo.nickname # outbox[2].data.partnerInfo.nickname
    /\ outbox[1].data.partnerInfo.location # NULL
    /\ outbox[2].data.partnerInfo.location # NULL
    /\ outbox[1].data.partnerInfo.location # outbox[2].data.partnerInfo.location

\* C6: pairing is one atomic step: every room that appears was created by
\* one find-partner whose partner was taken from the queue, that step leaves
\* no entry of the partner (or of the caller) for a later caller to obtain,
\* it creates one room only, and the partner is in no other room.
C6_PairingAtomic ==
    [][\A r \in DOMAIN activeRooms' \ DOMAIN activeRooms :
          LET caller == activeRooms'[r].user1.socketId
              entry == activeRooms'[r].user2
          IN  /\ Served("find-partner", caller)
              /\ \E i \in DOMAIN waitingUsers : waitingUsers[i] = entry
              /\ Entries(waitingUsers', entry.socketId) = 0
              /\ Entries(waitingUsers', caller) = 0
              /\ DOMAIN activeRooms' \ DOMAIN activeRooms = {r}
              /\ RoomsOf(activeRooms', entry.socketId) = {r}
              /\ RoomsOf(activeRooms', caller) = {r}]_vars

\* A second pairing has just happened and emptied the queue.
C6_Witness ==
    /\ lastEvent.name = "find-partner"
    /\ Got(outbox, lastEvent.socket, "partner-found") = 1
    /\ uuidCount = 2
    /\ waitingUsers = <<>>

SendEvents == {"send-message", "send-media-message", "send-voice-message"}

SentType(name) ==
    IF name = "send-message" THEN "text"
    ELSE IF name = "send-media-message" THEN "media" ELSE "voice"

\* C7: a send-* event from a room member appends exactly one message (its
\* own, of the event's kind) to that room's log, changes no other room, and
\* delivers exactly one new-message to each of the two members and nothing
\* to anybody else.
C7_SendStep ==
    [][\A c \in Conns :
          (/\ lastEvent'.socket = c
           /\ lastEvent'.name \in SendEvents
           /\ RoomsOf(activeRooms, c) # {})
          => \E r \in RoomsOf(activeRooms, c) :
                LET old == activeRooms[r].messages
                IN  /\ DOMAIN activeRooms' = DOMAIN activeRooms
                    /\ \A r2 \in DOMAIN activeRooms \ {r} :
                          activeRooms'[r2] = activeRooms[r2]
                    /\ Len(activeRooms'[r].messages) = Len(old) + 1
                    /\ SubSeq(activeRooms'[r].messages, 1, Len(old)) = old
                    /\ activeRooms'[r].messages[Len(old) + 1].senderId = c
                    /\ activeRooms'[r].messages[Len(old) + 1].type =
                          SentType(lastEvent'.name)
                    /\ Members(activeRooms'[r]) = Members(activeRooms[r])
                    /\ \A m \in Members(activeRooms[r]) :
                          Got(outbox', m, "new-message") = 1
                    /\ Len(outbox') = 2]_vars

\* A room member has just sent a message while a third connection was
\* registered.
C7_Witness ==
    /\ lastEvent.name \in SendEvents
    /\ Len(outbox) = 2
    /\ \E r \in DOMAIN activeRooms :
          /\ lastEvent.socket \in Members(activeRooms[r])
          /\ Len(activeRooms[r].messages) = 1
          /\ DOMAIN userSockets \ Members(activeRooms[r]) # {}

\* C8: when a room member disconnects, that step removes the room
\* (getRoomBySocketId finds none for either former member) and delivers
\* exactly one partner-disconnected, to the other member and to nobody else.
C8_DisconnectStep ==
    [][\A c \in Conns :
          (Served("disconnect", c) /\ RoomsOf(activeRooms, c) # {})
          => \A r \in RoomsOf(activeRooms, c) :
                \A p \in Members(activeRooms[r]) \ {c} :
                   /\ r \notin DOMAIN activeRooms'
                   /\ RoomsOf(activeRooms', c) = {}
                   /\ RoomsOf(activeRooms', p) = {}
                   /\ getRoomBySocketId(activeRooms', c) = NULL
                   /\ getRoomBySocketId(activeRooms', p) = NULL
                   /\ Got(outbox', p, "partner-disconnected") = 1
                   /\ Len(outbox') = 1]_vars

\* A room member has just disconnected and its partner was told.
C8_Witness ==
    /\ lastEvent.name = "disconnect"
    /\ Len(outbox) = 1
    /\ outbox[1].name = "partner-disconnected"
    /\ conn[outbox[1].to] = "open"
    /\ RoomsOf(activeRooms, outbox[1].to) = {}

\* C9: serving disconnect again for a connection already closed changes
\* neither the registry, the queue nor the rooms and delivers no event.
C9_DisconnectIdempotent ==
    [][\A c \in Conns :
          Served("disconnect-again", c)
          => /\ userSockets' = userSockets
             /\ waitingUsers' = waitingUsers
             /\ activeRooms' = activeRooms
             /\ outbox' = <<>>]_vars

\* Disconnect has just been served again for a closed connection while the
\* remaining member of a removed room is still connected.
C9_Witness ==
    /\ lastEvent.name = "disconnect-again"
    /\ conn[lastEvent.socket] = "closed"
    /\ outbox = <<>>
    /\ \E r \in RoomIds : r \notin DOMAIN activeRooms /\ joined[r] # {}

RoomScopedEvents ==
    SendEvents \cup
    {"typing-start", "typing-stop", "webrtc-offer", "webrtc-answer",
     "webrtc-ice-candidate", "initiate-voice-call", "accept-voice-call",
     "reject-voice-call", "end-voice-call", "initiate-video-call",
     "accept-video-call", "reject-video-call", "end-video-call"}

\* C10: a room-scoped event from a connection that is in no room delivers
\* one error event, to that connection, and no event to anybody else.
C10_NoRoomIsAnError ==
    [][\A c \in Conns :
          (/\ lastEvent'.socket = c
           /\ lastEvent'.name \in RoomScopedEvents
           /\ RoomsOf(activeRooms, c) = {})
          => /\ Got(outbox', c, "error") = 1
             /\ Len(outbox') = 1]_vars

\* C11: whenever a message, typing, call or signaling event from connection
\* x makes the server deliver an event to another connection y, x and y are
\* at that moment the two members of one active room.
C11_RoutedWithinRoom ==
    [][\A x \in Conns :
          (lastEvent'.socket = x /\ lastEvent'.name \in RoomScopedEvents)
          => \A i \in DOMAIN outbox' :
                outbox'[i].to # x
                => \E r \in DOMAIN activeRooms :
                      Members(activeRooms[r]) = {x, outbox'[i].to}]_vars

\* C12: once disconnect has been served for x, x is in no waiting entry, no
\* active room has x as a member, and no partner-found delivered from then on
\* names x as the partner.
C12_NoStaleEntryAfterDisconnect ==
    [][\A x \in Conns :
          conn'[x] = "closed"
          => /\ Entries(waitingUsers', x) = 0
             /\ RoomsOf(activeRooms', x) = {}
             /\ \A i \in DOMAIN outbox' :
                   outbox'[i].name = "partner-found"
                   => outbox'[i].data.partnerId # x]_vars

\* Two connections have just been paired after a third one had disconnected.
C12_Witness ==
    /\ lastEvent.name = "find-partner"
    /\ Got(outbox, lastEvent.socket, "partner-found") = 1
    /\ Len(outbox) = 2
    /\ \E x \in Conns : conn[x] = "closed"

\* C13: every new-message is delivered for a room that is active before and
\* after the step, to the members of that room only, both of them connected,
\* through a relay group holding exactly those two, and it is the message
\* just appended to that room's log; no active room ever has a member that
\* is not connected.  So nothing is delivered for a room once stop-chat or
\* disconnect has removed it, although the remaining member stays in the
\* removed room's relay group.
C13_NoDeliveryAfterRemoval ==
    [][/\ \A r \in DOMAIN activeRooms' :
             \A m \in Members(activeRooms'[r]) : conn'[m] = "open"
       /\ \A i \in DOMAIN outbox' :
             outbox'[i].name = "new-message"
             => \E r \in DOMAIN activeRooms \cap DOMAIN activeRooms' :
                   /\ lastEvent'.socket \in Members(activeRooms[r])
                   /\ outbox'[i].to \in Members(activeRooms[r])
                   /\ joined[r] = Members(activeRooms[r])
                   /\ {outbox'[j].to : j \in DOMAIN outbox'} = joined[r]
                   /\ \A m \in Members(activeRooms[r]) : conn[m] = "open"
                   /\ activeRooms'[r].messages =
                         Append(activeRooms[r].messages, outbox'[i].data)]_vars

\* A message has just been delivered in a room while one of its members is
\* still in the relay group of an earlier, removed room.
C13_Witness ==
    /\ lastEvent.name \in SendEvents
    /\ Got(outbox, lastEvent.socket, "new-message") = 1
    /\ \E old \in RoomIds \ DOMAIN activeRooms :
          \E r \in DOMAIN activeRooms :
             /\ joined[old] \cap Members(activeRooms[r]) # {}
             /\ lastEvent.socket \in Members(activeRooms[r])

\* C14: stop-chat from a room member removes that room and no other,
\* delivers exactly one chat-stopped to the sender and exactly one
\* partner-disconnected to the other member, and leaves both connected,
\* registered, in no room and in no waiting entry.
C14_StopChatInRoom ==
    [][\A c \in Conns :
          (Served("stop-chat", c) /\ RoomsOf(activeRooms, c) # {})
          => \A r \in RoomsOf(activeRooms, c) :
                \A p \in Members(activeRooms[r]) \ {c} :
                   /\ DOMAIN activeRooms' = DOMAIN activeRooms \ {r}
                   /\ \A r2 \in DOMAIN activeRooms' :
                         activeRooms'[r2] = activeRooms[r2]
                   /\ Len(outbox') = 2
                   /\ Got(outbox', c, "chat-stopped") = 1
                   /\ Got(outbox', p, "partner-disconnected") = 1
                   /\ \A m \in {c, p} :
                         /\ conn'[m] = "open"
                         /\ m \in DOMAIN userSockets'
                         /\ RoomsOf(activeRooms', m) = {}
                         /\ Entries(waitingUsers', m) = 0]_vars

\* A room member has just stopped the chat: its partner was told first, then
\* the sender, and both are registered and in no room.
C14_Witness ==
    /\ lastEvent.name = "stop-chat"
    /\ lastEvent.was = "room"
    /\ Len(outbox) = 2
    /\ outbox[1].name = "partner-disconnected"
    /\ outbox[2].name = "chat-stopped"
    /\ outbox[2].to = lastEvent.socket
    /\ \A m \in {outbox[1].to, outbox[2].to} :
          m \in DOMAIN userSockets /\ RoomsOf(activeRooms, m) = {}

NotOf(c, e) == e.socketId # c

\* C15: stop-chat from a connection that is in the waiting queue removes
\* every entry of that connection, keeps the entries of the others as they
\* were and in order, changes no room, and delivers one chat-stopped, to the
\* sender, and nothing else.
C15_StopChatWhileWaiting ==
    [][\A c \in Conns :
          (Served("stop-chat", c) /\ Entries(waitingUsers, c) >= 1)
          => /\ Entries(waitingUsers', c) = 0
             /\ waitingUsers' = SelectSeq(waitingUsers, LAMBDA e : NotOf(c, e))
             /\ activeRooms' = activeRooms
             /\ Len(outbox') = 1
             /\ Got(outbox', c, "chat-stopped") = 1]_vars

\* A waiting connection has just cancelled: it got chat-stopped alone, is
\* still registered and the queue is empty.
C15_Witness ==
    /\ lastEvent.name = "stop-chat"
    /\ lastEvent.was = "waiting"
    /\ lastEvent.socket \in DOMAIN userSockets
    /\ RoomsOf(activeRooms, lastEvent.socket) = {}
    /\ outbox = socketEmit(lastEvent.socket, "chat-stopped", NULL)
    /\ waitingUsers = <<>>

\* C16: find-partner from a connection that is a member of a room delivers
\* one error ("Already in a chat room") to that connection and nothing else,
\* creates no room, and leaves the waiting queue as it was: the caller is
\* not enqueued and no entry is removed.
C16_FindPartnerInRoomRejected ==
    [][\A c \in Conns :
          (Served("find-partner", c) /\ RoomsOf(activeRooms, c) # {})
          => /\ Len(outbox') = 1
             /\ Got(outbox', c, "error") = 1
             /\ outbox'[1].data.message = "Already in a chat room"
             /\ activeRooms' = activeRooms
             /\ waitingUsers' = waitingUsers
             /\ uuidCount' = uuidCount]_vars

\* A room member has just been refused while a third connection is waiting.
C16_Witness ==
    /\ lastEvent.name = "find-partner"
    /\ lastEvent.was = "room"
    /\ outbox = socketEmit(lastEvent.socket, "error",
                           [message |-> "Already in a chat room"])
    /\ waitingUsers # <<>>
    /\ lastEvent.socket \notin Waiting(waitingUsers)

\* C17: whenever a handler delivers an error event, that event is the only
\* one delivered and goes to the connection whose event was being handled,
\* and the registry, the waiting queue, the rooms with their message logs
\* and the relay groups are the same after the step as before.
C17_ErrorsChangeNothing ==
    [][(\E i \in DOMAIN outbox' : outbox'[i].name = "error")
          => /\ Len(outbox') = 1
             /\ outbox'[1].to = lastEvent'.socket
             /\ userSockets' = userSockets
             /\ waitingUsers' = waitingUsers
             /\ activeRooms' = activeRooms
             /\ joined' = joined
             /\ conn' = conn]_vars

\* A connection outside the room has just been answered with an error while
\* two others are in a room that already holds a message.
C17_Witness ==
    /\ Len(outbox) = 1
    /\ outbox[1].name = "error"
    /\ outbox[1].to = lastEvent.socket
    /\ lastEvent.was \in {"new", "idle", "waiting"}
    /\ \E r \in DOMAIN activeRooms :
          /\ lastEvent.socket \notin Members(activeRooms[r])
          /\ activeRooms[r].messages # <<>>

AnswerEvents ==
    {"accept-voice-call", "reject-voice-call",
     "accept-video-call", "reject-video-call"}

\* C18: accepting or rejecting a voice or video call with a callerId that is
\* not the id of a connected socket delivers one error event, to the sender,
\* and nothing to anybody else.
C18_UnknownCallerIsAnError ==
    [][\A c \in Conns :
          (/\ lastEvent'.socket = c
           /\ lastEvent'.name \in AnswerEvents
           /\ \/ lastEvent'.callerId \notin Conns
              \/ conn[lastEvent'.callerId] \notin {"lookup", "open"})
          => /\ Got(outbox', c, "error") = 1
             /\ Len(outbox') = 1]_vars

\* The profile has a location with both coordinates.
HasCoords(profile) ==
    /\ profile.location # NULL
    /\ profile.location.latitude # NoCoord
    /\ profile.location.longitude # NoCoord

At(profile, lat, lon) ==
    /\ HasCoords(profile)
    /\ profile.location.latitude = lat
    /\ profile.location.longitude = lon

\* C19: the distance stored in a new room is non-null exactly when both
\* members have coordinates, coordinates equal to 0 included: members at
\* (0,0) and (0,1) get 111 km; and every partner-found that carries a
\* location reports the room's distance.
C19_DistanceWhenLocated ==
    [][\A r \in DOMAIN activeRooms' \ DOMAIN activeRooms :
          LET room == activeRooms'[r]
          IN  /\ (room.distance # NoDistance)
                    <=> (HasCoords(room.user1) /\ HasCoords(room.user2))
              /\ \/ At(room.user1, 0, 0) /\ At(room.user2, 0, 1)
                 \/ At(room.user1, 0, 1) /\ At(room.user2, 0, 0)
                 => room.distance = 111
              /\ \A i \in DOMAIN outbox' :
                    (/\ outbox'[i].name = "partner-found"
                     /\ outbox'[i].data.partnerInfo.location # NULL)
                    => outbox'[i].data.partnerInfo.location.distance
                          = room.distance]_vars

NotAmong(ids, e) == e.socketId \notin ids

\* C20: findMatch(c) returns the earliest-enqueued entry whose id is not c
\* and takes it out of the queue (with every other entry of that id and of
\* c, the rest staying in order); when no entry has another id it returns
\* none and leaves the queue unchanged.
C20_FindMatchFifo ==
    [][\A c \in Conns :
          Served("findMatch", c)
          => LET result == outbox'[1].data
             IN  /\ Len(outbox') = 1
                 /\ IF Waiting(waitingUsers) \ {c} = {}
                    THEN /\ result = NULL
                         /\ waitingUsers' = waitingUsers
                    ELSE /\ result = FirstOther(waitingUsers, c)
                         /\ \A i \in DOMAIN waitingUsers' :
                               waitingUsers'[i] # result
                         /\ waitingUsers' =
                               SelectSeq(waitingUsers,
                                         LAMBDA e : NotAmong({c, result.socketId}, e))]_vars

\* findMatch has just returned one of two eligible entries: the other one,
\* of a third id, is still in the queue.
C20_Witness ==
    /\ lastEvent.name = "findMatch"
    /\ Len(outbox) = 1
    /\ outbox[1].data # NULL
    /\ waitingUsers # <<>>
    /\ Waiting(waitingUsers) \cap {lastEvent.socket, outbox[1].data.socketId} = {}

\* The event an accept or reject is forwarded as.
AnswerOf(name) ==
    IF name = "accept-voice-call" THEN "voice-call-accepted"
    ELSE IF name = "reject-voice-call" THEN "voice-call-rejected"
    ELSE IF name = "accept-video-call" THEN "video-call-accepted"
    ELSE "video-call-rejected"

\* C21: accepting or rejecting a voice or video call from a connection that
\* is in a room changes neither registry, queue nor rooms and delivers
\* exactly one event, the corresponding call-accepted / call-rejected, to
\* the caller id the payload names and to nobody else.
C21_AnswerDeliversOne ==
    [][\A c \in Conns :
          (/\ lastEvent'.socket = c
           /\ lastEvent'.name \in AnswerEvents
           /\ RoomsOf(activeRooms, c) # {})
          => /\ userSockets' = userSockets
             /\ waitingUsers' = waitingUsers
             /\ activeRooms' = activeRooms
             /\ Len(outbox') = 1
             /\ outbox'[1].to = lastEvent'.callerId
             /\ outbox'[1].name = AnswerOf(lastEvent'.name)]_vars

SignalEvents == {"webrtc-offer", "webrtc-answer", "webrtc-ice-candidate"}

InitiateEvents == {"initiate-voice-call", "initiate-video-call"}

TypingEvents == {"typing-start", "typing-stop"}

\* The event each of these is relayed as.
RelayedAs(name) ==
    IF name = "typing-start" THEN "partner-typing-start"
    ELSE IF name = "typing-stop" THEN "partner-typing-stop"
    ELSE IF name = "initiate-voice-call" THEN "incoming-voice-call"
    ELSE IF name = "initiate-video-call" THEN "incoming-video-call"
    ELSE name

\* C22: a typing, initiate-call or webrtc event from a room member changes
\* neither registry, queue nor rooms (message logs included) and delivers
\* exactly one event, to the sender's partner and never to the sender; a
\* webrtc event carries the sender's id as senderId and an incoming call
\* carries it as callerId.
C22_RelayedToPartnerOnly ==
    [][\A c \in Conns :
          (/\ lastEvent'.socket = c
           /\ lastEvent'.name \in SignalEvents \cup InitiateEvents \cup TypingEvents
           /\ RoomsOf(activeRooms, c) # {})
          => \A r \in RoomsOf(activeRooms, c) :
                /\ userSockets' = userSockets
                /\ waitingUsers' = waitingUsers
                /\ activeRooms' = activeRooms
                /\ Len(outbox') = 1
                /\ outbox'[1].to # c
                /\ Members(activeRooms[r]) = {c, outbox'[1].to}
                /\ outbox'[1].name = RelayedAs(lastEvent'.name)
                /\ lastEvent'.name \in SignalEvents
                      => outbox'[1].data.senderId = c
                /\ lastEvent'.name \in InitiateEvents
                      => outbox'[1].data.callerId = c]_vars

\* A room member has just sent a webrtc offer: its partner alone got it,
\* tagged with the sender's id, while a third connection is registered.
C22_Witness ==
    /\ lastEvent.name = "webrtc-offer"
    /\ lastEvent.was = "room"
    /\ Len(outbox) = 1
    /\ outbox[1].name = "webrtc-offer"
    /\ outbox[1].data.senderId = lastEvent.socket
    /\ outbox[1].to # lastEvent.socket
    /\ DOMAIN userSockets \ {lastEvent.socket, outbox[1].to} # {}

IsOf(c, e) == e.socketId = c

\* The entries of c, in queue order.
EntriesOf(q, c) == SelectSeq(q, LAMBDA e : IsOf(c, e))

\* C23: a connection that is in the waiting queue keeps its entries, as
\* they are, through every step except three: another connection's
\* find-partner that pairs it into a new room, its own stop-chat, and its
\* own disconnect.
C23_WaitsUntilMatchedOrGone ==
    [][\A c \in Conns :
          c \in Waiting(waitingUsers)
          => \/ /\ Len(EntriesOf(waitingUsers', c)) >= Len(EntriesOf(waitingUsers, c))
                /\ SubSeq(EntriesOf(waitingUsers', c), 1,
                          Len(EntriesOf(waitingUsers, c))) = EntriesOf(waitingUsers, c)
             \/ /\ lastEvent'.name = "find-partner"
                /\ lastEvent'.socket # c
                /\ \E r \in DOMAIN activeRooms' \ DOMAIN activeRooms :
                      Members(activeRooms'[r]) = {c, lastEvent'.socket}
             \/ Served("stop-chat", c)
             \/ Served("disconnect", c)]_vars

\* A waiting connection has just sent an event of its own that is neither
\* stop-chat nor find-partner, while another connection is registered, and
\* it is still waiting.
C23_Witness ==
    /\ lastEvent.was = "waiting"
    /\ lastEvent.name \in SendEvents \cup TypingEvents \cup AnswerEvents
    /\ lastEvent.socket \in Waiting(waitingUsers)
    /\ DOMAIN userSockets \ {lastEvent.socket} # {}

\* C24: when a room member stops the chat or disconnects, the other member
\* is left connected, registered and in no room; and find-partner from a
\* registered connection that is in no room is accepted: it is answered
\* with exactly one searching-partner or partner-found and no error.
C24_MatchableAgain ==
    [][\A c \in Conns :
          /\ (Served("stop-chat", c) \/ Served("disconnect", c))
             => \A r \in RoomsOf(activeRooms, c) :
                   \A p \in Members(activeRooms[r]) \ {c} :
                      /\ conn'[p] = "open"
                      /\ p \in DOMAIN userSockets'
                      /\ RoomsOf(activeRooms', p) = {}
                      /\ getRoomBySocketId(activeRooms', p) = NULL
          /\ (/\ Served("find-partner", c)
              /\ c \in DOMAIN userSockets
              /\ RoomsOf(activeRooms, c) = {})
             => /\ Got(outbox', c, "error") = 0
                /\ Got(outbox', c, "searching-partner")
                      + Got(outbox', c, "partner-found") = 1]_vars

\* The member a disconnect left behind (it is still in the relay group of
\* the removed room, alone) has just asked again and been paired with a
\* third connection.
C24_Witness ==
    /\ lastEvent.name = "find-partner"
    /\ lastEvent.was = "idle"
    /\ Got(outbox, lastEvent.socket, "partner-found") = 1
    /\ \E old \in RoomIds \ DOMAIN activeRooms :
          /\ joined[old] = {lastEvent.socket}
          /\ \E x \in Conns : conn[x] = "closed"

\* C25: a connection for which disconnect has been served is, in every
\* later state and whatever events the others send, neither in the
\* registry nor in the waiting queue nor a member of any room.
C25_GoneForGood ==
    \A c \in Conns :
        conn[c] = "closed"
        => /\ c \notin DOMAIN userSockets
           /\ Entries(waitingUsers, c) = 0
           /\ RoomsOf(activeRooms, c) = {}

\* A room member has just answered a call naming a connection that had
\* disconnected.
C25_Witness ==
    /\ lastEvent.name \in AnswerEvents
    /\ lastEvent.was = "room"
    /\ lastEvent.callerId \in Conns
    /\ conn[lastEvent.callerId] = "closed"
    /\ outbox = <<>>

\* C29: every join-system a connected socket sends is acknowledged with
\* joined-system and leaves the socket registered, also when it arrives
\* before the lookup started at connection time has completed.  The
\* handler is synchronous and the server keeps nothing of an event it has
\* consumed, so the acknowledgement is there once the event is consumed or
\* never.
C29_EveryJoinAcknowledged ==
    (lastEvent.name = "join-system" /\ Connected(lastEvent.socket))
    => /\ Got(outbox, lastEvent.socket, "joined-system") = 1
       /\ lastEvent.socket \in DOMAIN userSockets

\* C26: a join-system served by the handler sets the caller's registry
\* entry (its id, the nickname sent, the location looked up at connection
\* time), creating or overwriting it and leaving every other entry alone,
\* never answers an error, and delivers exactly one joined-system, to the
\* caller; a join that follows a join of the same connection with the same
\* nickname leaves the registry as that first join left it.
C26_JoinIdempotent ==
    [][\A c \in Conns :
          (Served("join-system", c) /\ conn[c] = "open")
          => /\ DOMAIN userSockets' = DOMAIN userSockets \cup {c}
             /\ \A o \in DOMAIN userSockets \ {c} : userSockets'[o] = userSockets[o]
             /\ userSockets'[c].socketId = c
             /\ userSockets'[c].location = userLocation[c]
             /\ Len(outbox') = 1
             /\ Got(outbox', c, "joined-system") = 1
             /\ (/\ lastEvent.name = "join-system"
                 /\ lastEvent.socket = c
                 /\ c \in DOMAIN userSockets
                 /\ userSockets'[c].nickname = userSockets[c].nickname)
                => userSockets' = userSockets]_vars

\* A connection that was already registered has just joined again and been
\* acknowledged, while another connection is registered.
C26_Witness ==
    /\ lastEvent.name = "join-system"
    /\ lastEvent.was = "idle"
    /\ Got(outbox, lastEvent.socket, "joined-system") = 1
    /\ lastEvent.socket \in DOMAIN userSockets
    /\ userSockets[lastEvent.socket].nickname # NoNick
    /\ DOMAIN userSockets \ {lastEvent.socket} # {}

\* C28: when the lookup found nothing (or threw), join-system still
\* registers the connection and acknowledges it with joined-system whose
\* location is null; and a room created with a member whose location is
\* null has null distance and reports no location for that member.
C28_LookupFailureDegrades ==
    [][/\ \A c \in Conns :
             (Served("join-system", c) /\ conn[c] = "open" /\ userLocation[c] = NULL)
             => /\ c \in DOMAIN userSockets'
                /\ userSockets'[c].location = NULL
                /\ Len(outbox') = 1
                /\ Got(outbox', c, "joined-system") = 1
                /\ outbox'[1].data.success
                /\ outbox'[1].data.location = NULL
       /\ \A r \in DOMAIN activeRooms' \ DOMAIN activeRooms :
             LET room == activeRooms'[r]
             IN  (room.user1.location = NULL \/ room.user2.location = NULL)
                 => /\ room.distance = NoDistance
                    /\ Len(outbox') = 2
                    /\ \A i \in DOMAIN outbox' :
                          /\ outbox'[i].name = "partner-found"
                          /\ \A m \in {room.user1, room.user2} :
                                (m.location = NULL /\ outbox'[i].data.partnerId = m.socketId)
                                => outbox'[i].data.partnerInfo.location = NULL]_vars

\* A room has just been created between a connection whose lookup failed
\* and one whose lookup succeeded.
C28_Witness ==
    /\ lastEvent.name = "find-partner"
    /\ \E r \in DOMAIN activeRooms :
          /\ lastEvent.socket \in Members(activeRooms[r])
          /\ activeRooms[r].messages = <<>>
          /\ activeRooms[r].distance = NoDistance
          /\ {activeRooms[r].user1.location, activeRooms[r].user2.location}
                \in {{NULL, Jakarta}, {NULL, Singapore}}
    /\ Got(outbox, lastEvent.socket, "partner-found") = 1

\* C27: while a room exists, every step either leaves its message log as
\* it is or adds one message at its end; the messages already in the log
\* keep their content and their order and none is removed.
C27_LogAppendOnly ==
    [][\A r \in DOMAIN activeRooms \cap DOMAIN activeRooms' :
          LET old == activeRooms[r].messages
              new == activeRooms'[r].messages
          IN  \/ new = old
              \/ /\ Len(new) = Len(old) + 1
                 /\ SubSeq(new, 1, Len(old)) = old]_vars

\* A message has just been added to a log that already held a different
\* one.
C27_Witness ==
    /\ lastEvent.name \in SendEvents
    /\ \E r \in DOMAIN activeRooms :
          /\ lastEvent.socket \in Members(activeRooms[r])
          /\ Len(activeRooms[r].messages) = 2
          /\ activeRooms[r].messages[1] # activeRooms[r].messages[2]
          /\ activeRooms[r].messages[2].senderId = lastEvent.socket

\* C30: the waiting queue never holds entries of two different
\* connections: a find-partner from a registered connection that is in no
\* room is answered with partner-found, and not enqueued, whenever another
\* connection is waiting.
C30_OneWaitingId ==
    [][/\ Cardinality(Waiting(waitingUsers')) <= 1
       /\ \A c \in Conns :
             (/\ Served("find-partner", c)
              /\ c \in DOMAIN userSockets
              /\ RoomsOf(activeRooms, c) = {}
              /\ Waiting(waitingUsers) \ {c} # {})
             => /\ Got(outbox', c, "partner-found") = 1
                /\ Got(outbox', c, "searching-partner") = 0
                /\ c \notin Waiting(waitingUsers')]_vars

\* A registered connection in no room has just asked while another one was
\* waiting: the two were paired and nobody is waiting, a third connection
\* being registered and idle.
C30_Witness ==
    /\ lastEvent.name = "find-partner"
    /\ lastEvent.was = "idle"
    /\ Got(outbox, lastEvent.socket, "partner-found") = 1
    /\ Len(outbox) = 2
    /\ waitingUsers = <<>>
    /\ Cardinality(DOMAIN userSockets) = 3
    /\ \A c \in Conns : conn[c] = "open"

\* C31: waiting and being in a room exclude each other: no connection id is
\* in the waiting queue and a member of an active room at once.
C31_WaitingXorInRoom ==
    \A c \in Conns :
        ~(c \in Waiting(waitingUsers) /\ RoomsOf(activeRooms, c) # {})

\* A room is active while a third connection, already waiting, has asked
\* again and is in the queue twice.
C31_Witness ==
    /\ lastEvent.name = "find-partner"
    /\ lastEvent.was = "waiting"
    /\ Entries(waitingUsers, lastEvent.socket) = 2
    /\ \E r \in DOMAIN activeRooms : lastEvent.socket \notin Members(activeRooms[r])

\* C32: no orphaned waiters or members: every connection id in the waiting
\* queue and every member of every active room is in the registry and is a
\* connection that is open (it has joined and has not disconnected).
C32_NoOrphans ==
    \A c \in Waiting(waitingUsers) \cup
             UNION {Members(activeRooms[r]) : r \in DOMAIN activeRooms} :
        /\ c \in DOMAIN userSockets
        /\ conn[c] = "open"

\* A waiting connection has just disconnected while a room is active, and
\* the two members of that room are all the registry holds.
C32_Witness ==
    /\ lastEvent.name = "disconnect"
    /\ lastEvent.was = "waiting"
    /\ waitingUsers = <<>>
    /\ \E r \in DOMAIN activeRooms : DOMAIN userSockets = Members(activeRooms[r])

\* C33: every message in the log of a room has a senderId that is one of
\* the room's two members, and was appended while the room was active: a
\* room starts with an empty log, and a log grows only by a send-* event of
\* a member of that room, which adds a message carrying the sender's id.
C33_LogOfMembers ==
    [][/\ \A r \in DOMAIN activeRooms' :
             \A i \in DOMAIN activeRooms'[r].messages :
                activeRooms'[r].messages[i].senderId \in Members(activeRooms'[r])
       /\ \A r \in DOMAIN activeRooms' \ DOMAIN activeRooms :
             activeRooms'[r].messages = <<>>
       /\ \A r \in DOMAIN activeRooms \cap DOMAIN activeRooms' :
             activeRooms'[r].messages # activeRooms[r].messages
             => /\ lastEvent'.name \in SendEvents
                /\ lastEvent'.socket \in Members(activeRooms[r])
                /\ Members(activeRooms'[r]) = Members(activeRooms[r])
                /\ activeRooms'[r].messages[Len(activeRooms'[r].messages)].senderId
                      = lastEvent'.socket]_vars

\* A log holds a message of each of the two members, the later one just
\* sent, while a third connection is registered.
C33_Witness ==
    /\ lastEvent.name \in SendEvents
    /\ lastEvent.was = "room"
    /\ \E r \in DOMAIN activeRooms :
          /\ Len(activeRooms[r].messages) = 2
          /\ {activeRooms[r].messages[1].senderId, activeRooms[r].messages[2].senderId}
                = Members(activeRooms[r])
          /\ activeRooms[r].messages[2].senderId = lastEvent.socket
          /\ DOMAIN userSockets \ Members(activeRooms[r]) # {}

\* C34: the relay group named by the id of an active room holds exactly
\* that room's two members, and no connection is in the relay groups of two
\* active rooms (it may still be in the group of a room that was removed).
C34_RelayGroupIsRoom ==
    /\ \A r \in DOMAIN activeRooms : joined[r] = Members(activeRooms[r])
    /\ \A c \in Conns :
          Cardinality({r \in DOMAIN activeRooms : c \in joined[r]}) <= 1

\* The member a stop-chat left behind is still in the relay group of the
\* removed room and has been paired into a new room with a third
\* connection.
C34_Witness ==
    \E old \in RoomIds \ DOMAIN activeRooms :
       \E new \in DOMAIN activeRooms :
          \E c \in Conns :
             /\ c \in joined[old]
             /\ c \in joined[new]
             /\ conn[c] = "open"
             /\ \A x \in Conns : conn[x] = "open"

\* C35: stop-chat delivers exactly one chat-stopped to its sender, wherever
\* the sender stands; from a sender that is neither waiting nor in a room
\* (registered or not) it changes neither the registry nor the queue nor
\* any room, and delivers nothing to anybody else.
C35_StopChatAlwaysAnswered ==
    [][\A c \in Conns :
          Served("stop-chat", c)
          => /\ Got(outbox', c, "chat-stopped") = 1
             /\ (c \notin Waiting(waitingUsers) /\ RoomsOf(activeRooms, c) = {})
                => /\ userSockets' = userSockets
                   /\ waitingUsers' = waitingUsers
                   /\ activeRooms' = activeRooms
                   /\ joined' = joined
                   /\ Len(outbox') = 1
                   /\ outbox'[1].to = c]_vars

\* A connection that has not joined has just sent stop-chat while the two
\* others are in a room, and got its chat-stopped.
C35_Witness ==
    /\ lastEvent.name = "stop-chat"
    /\ lastEvent.was = "new"
    /\ lastEvent.socket \notin DOMAIN userSockets
    /\ Got(outbox, lastEvent.socket, "chat-stopped") = 1
    /\ \E r \in DOMAIN activeRooms :
          Members(activeRooms[r]) = Conns \ {lastEvent.socket}

\* C36: join-system changes the caller's registry entry and nothing else:
\* the waiting queue, the rooms, the relay groups and the registry entries
\* of the others stay as they are, so a connection that joins again while
\* waiting or in a room keeps its place, and the profile in its waiting
\* entry or room is still the one taken when it was enqueued or matched
\* (an entry is enqueued with the caller's registered profile of that
\* moment).
C36_JoinTouchesRegistryOnly ==
    [][\A c \in Conns :
          /\ Served("join-system", c)
             => /\ waitingUsers' = waitingUsers
                /\ activeRooms' = activeRooms
                /\ joined' = joined
                /\ \A o \in DOMAIN userSockets \ {c} :
                      o \in DOMAIN userSockets' /\ userSockets'[o] = userSockets[o]
                /\ DOMAIN userSockets' \subseteq DOMAIN userSockets \cup {c}
          /\ (Served("find-partner", c) /\ Len(waitingUsers') > Len(waitingUsers))
             => /\ Len(waitingUsers') = Len(waitingUsers) + 1
                /\ SubSeq(waitingUsers', 1, Len(waitingUsers)) = waitingUsers
                /\ waitingUsers'[Len(waitingUsers')].socketId = c
                /\ waitingUsers'[Len(waitingUsers')].nickname = userSockets[c].nickname
                /\ waitingUsers'[Len(waitingUsers')].location = userSockets[c].location]_vars

\* A room member has just joined again under another nickname than the one
\* its room holds, while the third connection is waiting under another
\* nickname than the one the registry now holds for it.
C36_Witness ==
    /\ lastEvent.name = "join-system"
    /\ lastEvent.was = "room"
    /\ \E r \in DOMAIN activeRooms :
          \E m \in {activeRooms[r].user1, activeRooms[r].user2} :
             /\ m.socketId = lastEvent.socket
             /\ m.nickname # userSockets[lastEvent.socket].nickname
    /\ \E i \in DOMAIN waitingUsers :
          waitingUsers[i].nickname # userSockets[waitingUsers[i].socketId].nickname

\* C37: a room appears only in a find-partner step, one room per step that
\* answers partner-found and with the sender as a member; a room disappears
\* only in a stop-chat or disconnect step of one of its members; and a
\* room that stays keeps its id and its two members through every step.
C37_RoomLifecycle ==
    [][/\ lastEvent'.name = "find-partner"
          => IF Got(outbox', lastEvent'.socket, "partner-found") >= 1
             THEN /\ Cardinality(DOMAIN activeRooms' \ DOMAIN activeRooms) = 1
                  /\ \A r \in DOMAIN activeRooms' \ DOMAIN activeRooms :
                        lastEvent'.socket \in Members(activeRooms'[r])
             ELSE DOMAIN activeRooms' \subseteq DOMAIN activeRooms
       /\ lastEvent'.name # "find-partner"
          => DOMAIN activeRooms' \subseteq DOMAIN activeRooms
       /\ \A r \in DOMAIN activeRooms :
             IF r \in DOMAIN activeRooms'
             THEN /\ activeRooms'[r].id = activeRooms[r].id
                  /\ activeRooms'[r].user1 = activeRooms[r].user1
                  /\ activeRooms'[r].user2 = activeRooms[r].user2
             ELSE /\ lastEvent'.name \in {"stop-chat", "disconnect"}
                  /\ lastEvent'.socket \in Members(activeRooms[r])]_vars

\* The second room is active, the first having been removed, and a
\* connection outside it has just answered a call naming one of its
\* members, who received the answer.
C37_Witness ==
    /\ lastEvent.name \in AnswerEvents
    /\ uuidCount = 2
    /\ DOMAIN activeRooms = {uuidv4(2)}
    /\ lastEvent.socket \notin Members(activeRooms[uuidv4(2)])
    /\ lastEvent.callerId \in Members(activeRooms[uuidv4(2)])
    /\ Len(outbox) = 1

====
